---- MODULE Spec2Model ----
(***************************************************************************)
(* Model of the ownership-structure calculator                              *)
(* (src/src/resights_ownership_structure_calculator/models.py).             *)
(*                                                                          *)
(* Python str values that the code parses (share strings) are sequences of  *)
(* one-character strings.  Python floats are exact rationals [n, d] in      *)
(* lowest terms; every number the model reaches is exactly representable    *)
(* or is compared only through the same sequence of operations.  Entity ids *)
(* are the integers of the records (the code keys its dicts by str(int),    *)
(* which is injective).  Python dicts are sequences in insertion order.     *)
(***************************************************************************)
EXTENDS Integers, Sequences, FiniteSets, TLC

\* ---------------------------------------------------------------- bounds
\* entity ids are 1..MaxNode
MaxNode == 3
\* a record list holds at most MaxRecs records
MaxRecs == 3
\* a share string handed to the parser alone holds at most MaxLen characters
MaxLen == 4
\* a record list with free relation ids holds at most MaxData records
MaxData == 2
\* free relation ids are 1..MaxRelId
MaxRelId == 2

\* ------------------------------------------------------------ rationals
RECURSIVE GCD(_, _)
GCD(a, b) == IF b = 0 THEN a ELSE GCD(b, a % b)

Abs(x) == IF x < 0 THEN -x ELSE x

\* the rational n/d (d # 0) in lowest terms with a positive denominator
Rat(n, d) ==
    LET g == GCD(Abs(n), Abs(d))
        s == IF d < 0 THEN -1 ELSE 1
    IN  [n |-> (s * n) \div g, d |-> (s * d) \div g]

RInt(i) == [n |-> i, d |-> 1]
RMul(x, y) == Rat(x.n * y.n, x.d * y.d)
RAdd(x, y) == Rat(x.n * y.d + y.n * x.d, x.d * y.d)
RDiv(x, y) == Rat(x.n * y.d, x.d * y.n)
RLe(x, y) == x.n * y.d <= y.n * x.d

\* ------------------------------------------------- ShareRange and parser
ShareRange(lo, av, up) == [lower |-> lo, average |-> av, upper |-> up]

NoShare == ShareRange(RInt(0), RInt(0), RInt(0))

Digits == {"0", "1", "2", "3", "4", "5", "6", "7", "8", "9"}

DigitVal(c) ==
    CASE c = "0" -> 0 [] c = "1" -> 1 [] c = "2" -> 2 [] c = "3" -> 3
      [] c = "4" -> 4 [] c = "5" -> 5 [] c = "6" -> 6 [] c = "7" -> 7
      [] c = "8" -> 8 [] c = "9" -> 9

RECURSIVE DecVal(_)
DecVal(s) ==
    IF s = <<>> THEN 0
    ELSE 10 * DecVal(SubSeq(s, 1, Len(s) - 1)) + DigitVal(s[Len(s)])

AllDigits(s) == s # <<>> /\ \A i \in 1..Len(s) : s[i] \in Digits

\* float(s) on the characters the model uses: an optional minus sign and a
\* non-empty run of digits; anything else raises ValueError
FloatOk(s) ==
    IF s # <<>> /\ s[1] = "-" THEN AllDigits(Tail(s)) ELSE AllDigits(s)

Float(s) ==
    IF s[1] = "-" THEN RInt(-DecVal(Tail(s))) ELSE RInt(DecVal(s))

\* s.split("-")
RECURSIVE Split(_)
Split(s) ==
    IF \A i \in 1..Len(s) : s[i] # "-" THEN <<s>>
    ELSE LET k == CHOOSE i \in 1..Len(s) :
                      s[i] = "-" /\ \A j \in 1..(i - 1) : s[j] # "-"
         IN  <<SubSeq(s, 1, k - 1)>> \o Split(SubSeq(s, k + 1, Len(s)))

\* s[1:-1] and s[:-1]
Slice1m1(s) == SubSeq(s, 2, Len(s) - 1)
SliceTo_m1(s) == SubSeq(s, 1, Len(s) - 1)

Ok(v) == [ok |-> TRUE, val |-> v]
Err == [ok |-> FALSE, val |-> NoShare]

HundredPct == <<"1", "0", "0", "%">>

\* ShareRange.from_share_string; Err is the ValueError
from_share_string(share) ==
    IF share = HundredPct
    THEN Ok(ShareRange(RInt(100), RInt(100), RInt(100)))
    ELSE IF share # <<>> /\ share[1] = "<"
    THEN LET body == Slice1m1(share)
         IN  IF FloatOk(body)
             THEN LET upper == Float(body)
                  IN  Ok(ShareRange(RInt(0), RDiv(upper, RInt(2)), upper))
             ELSE Err
    ELSE IF \E i \in 1..Len(share) : share[i] = "-"
    THEN LET parts == Split(SliceTo_m1(share))
         IN  IF Len(parts) = 2 /\ FloatOk(parts[1]) /\ FloatOk(parts[2])
             THEN LET lower == Float(parts[1])
                      upper == Float(parts[2])
                  IN  Ok(ShareRange(lower, RDiv(RAdd(lower, upper), RInt(2)), upper))
             ELSE Err
    ELSE Err

\* ------------------------------------------------------------- entities
\* OwnershipNode
OwnershipNode(i, nm) == [id |-> i, name |-> nm]

NoNode == OwnershipNode(0, "")

\* OwnershipRelation
OwnershipRelation(i, src, tgt, sh, act, sd, td) ==
    [id |-> i, source |-> src, target |-> tgt, share |-> sh, active |-> act,
     source_depth |-> sd, target_depth |-> td]

\* mutant of DictPut: a list, to which every item is appended
ListAppend(d, item) == Append(d, item)

\* d[item.id] = item on a dict kept as a sequence in insertion order: an
\* existing key keeps its position, a new key goes last
DictPut(d, item) ==
    IF \E i \in 1..Len(d) : d[i].id = item.id
    THEN [i \in 1..Len(d) |-> IF d[i].id = item.id THEN item ELSE d[i]]
    ELSE Append(d, item)

HasKey(d, k) == \E i \in 1..Len(d) : d[i].id = k
DictGet(d, k) == d[CHOOSE i \in 1..Len(d) : d[i].id = k]
Values(d) == {d[i] : i \in 1..Len(d)}

\* ------------------------------------------------- from_relation_data
\* the loop of from_relation_data over relations_data[i..]; a share string
\* the parser rejects raises out of the loop
RECURSIVE BuildLoop(_, _, _, _)
BuildLoop(data, i, ns, rs) ==
    IF i > Len(data) THEN [ok |-> TRUE, nodes |-> ns, relations |-> rs]
    ELSE LET d == data[i]
             source_node == OwnershipNode(d.source, d.source_name)
             target_node == OwnershipNode(d.target, d.target_name)
             share_range == from_share_string(d.share)
         IN  IF ~share_range.ok
             THEN [ok |-> FALSE, nodes |-> <<>>, relations |-> <<>>]
             ELSE LET relation == OwnershipRelation(d.id, source_node, target_node,
                                      share_range.val, d.active,
                                      d.source_depth, d.target_depth)
                  IN  BuildLoop(data, i + 1,
                                DictPut(DictPut(ns, source_node), target_node),
                                DictPut(rs, relation))

from_relation_data(data) == BuildLoop(data, 1, <<>>, <<>>)

\* ------------------------------------------------------------ get_graph
\* graph is None
NoGraph == [built |-> FALSE, node |-> <<>>, edge |-> <<>>]

EdgeAttr(r) ==
    [id |-> r.id, lower |-> r.share.lower, average |-> r.share.average,
     upper |-> r.share.upper, source_depth |-> r.source_depth,
     target_depth |-> r.target_depth, active |-> r.active]

\* mutant of AddEdge: a second edge on the same ordered pair is dropped
AddEdgeKeepFirst(es, u, v, attr) ==
    IF \E i \in 1..Len(es) : es[i].u = u /\ es[i].v = v
    THEN es
    ELSE Append(es, [u |-> u, v |-> v, attr |-> attr])

\* DiGraph.add_edge(u, v, **attr): a second edge on the same ordered pair
\* overwrites the attributes of the first
AddEdge(es, u, v, attr) ==
    IF \E i \in 1..Len(es) : es[i].u = u /\ es[i].v = v
    THEN [i \in 1..Len(es) |->
              IF es[i].u = u /\ es[i].v = v THEN [u |-> u, v |-> v, attr |-> attr]
              ELSE es[i]]
    ELSE Append(es, [u |-> u, v |-> v, attr |-> attr])

RECURSIVE AddEdges(_, _, _)
AddEdges(es, rs, i) ==
    IF i > Len(rs) THEN es
    ELSE AddEdges(AddEdge(es, rs[i].source.id, rs[i].target.id, EdgeAttr(rs[i])),
                  rs, i + 1)

\* mutant of get_graph: the test of the cache is inverted
get_graph_inverted(ns, rs, g) ==
    IF ~g.built THEN g
    ELSE [built |-> TRUE,
          node |-> [i \in 1..Len(ns) |-> [id |-> ns[i].id, name |-> ns[i].name]],
          edge |-> AddEdges(<<>>, rs, 1)]

\* get_graph: the memoized graph, built from the registries on first use
get_graph(ns, rs, g) ==
    IF g.built THEN g
    ELSE [built |-> TRUE,
          node |-> [i \in 1..Len(ns) |-> [id |-> ns[i].id, name |-> ns[i].name]],
          edge |-> AddEdges(<<>>, rs, 1)]

\* ------------------------------------------- graph primitives (networkx)
Edges(g) == {g.edge[i] : i \in 1..Len(g.edge)}
Predecessors(g, x) == {e.u : e \in {f \in Edges(g) : f.v = x}}
Successors(g, x) == {e.v : e \in {f \in Edges(g) : f.u = x}}
EdgeData(g, u, v) == (CHOOSE e \in Edges(g) : e.u = u /\ e.v = v).attr

\* breadth-first search from a frontier: the hop count to t, or -1
RECURSIVE Bfs(_, _, _, _, _)
Bfs(g, frontier, seen, t, k) ==
    IF t \in frontier THEN k
    ELSE IF frontier = {} THEN -1
    ELSE LET nxt == UNION {Successors(g, u) : u \in frontier} \ seen
         IN  Bfs(g, nxt, seen \cup nxt, t, k + 1)

Dist(g, s, t) == Bfs(g, {s}, {s}, t, 0)

\* nx.has_path
HasPath(g, s, t) == Dist(g, s, t) >= 0

\* whether t is reached from s without entering a vertex of seen
RECURSIVE ReachAvoiding(_, _, _, _)
ReachAvoiding(g, frontier, seen, t) ==
    IF t \in frontier THEN TRUE
    ELSE IF frontier = {} THEN FALSE
    ELSE LET nxt == UNION {Successors(g, u) : u \in frontier} \ seen
         IN  ReachAvoiding(g, nxt, seen \cup nxt, t)

\* mutant of ShortestPath: a depth-first search, which returns a simple path
\* that need not be a shortest one
RECURSIVE DepthFirst(_, _, _, _)
DepthFirst(g, s, t, seen) ==
    IF s = t THEN <<s>>
    ELSE LET fits(i) == /\ g.edge[i].u = s
                        /\ g.edge[i].v \notin seen
                        /\ ReachAvoiding(g, {g.edge[i].v}, seen \cup {g.edge[i].v}, t)
             k == CHOOSE i \in 1..Len(g.edge) :
                      fits(i) /\ \A j \in 1..(i - 1) : ~fits(j)
         IN  <<s>> \o DepthFirst(g, g.edge[k].v, t, seen \cup {g.edge[k].v})

DepthFirstPath(g, s, t) == DepthFirst(g, s, t, {s})

\* nx.shortest_path (unweighted): one minimum-hop vertex list, the same one
\* for the same graph; the tie-break is the first fitting out-edge
RECURSIVE ShortestPath(_, _, _)
ShortestPath(g, s, t) ==
    IF s = t THEN <<s>>
    ELSE LET d == Dist(g, s, t)
             k == CHOOSE i \in 1..Len(g.edge) :
                      /\ g.edge[i].u = s /\ Dist(g, g.edge[i].v, t) = d - 1
                      /\ \A j \in 1..(i - 1) :
                             ~(g.edge[j].u = s /\ Dist(g, g.edge[j].v, t) = d - 1)
         IN  <<s>> \o ShortestPath(g, g.edge[k].v, t)

\* mutant of Ancestors: only the vertices one edge away
AncestorsOneHop(g, t) == Predecessors(g, t) \ {t}

\* nx.ancestors: every vertex with a path to t, t excluded
Ancestors(g, t) ==
    {n \in {g.node[i].id : i \in 1..Len(g.node)} : n # t /\ HasPath(g, n, t)}

\* -------------------------------------------------------------- queries
NodeOk(n) == [ok |-> TRUE, val |-> n]
NodeErr == [ok |-> FALSE, val |-> NoNode]

\* mutant of get_focus_company: the last relation of depth 0 wins
get_focus_company_last(rs) ==
    IF \E i \in 1..Len(rs) : rs[i].target_depth = 0
    THEN LET k == CHOOSE i \in 1..Len(rs) :
                      /\ rs[i].target_depth = 0
                      /\ \A j \in (i + 1)..Len(rs) : rs[j].target_depth # 0
         IN  NodeOk(rs[k].target)
    ELSE NodeErr

\* get_focus_company: the registry is scanned in insertion order
get_focus_company(rs) ==
    IF \E i \in 1..Len(rs) : rs[i].target_depth = 0
    THEN LET k == CHOOSE i \in 1..Len(rs) :
                      /\ rs[i].target_depth = 0
                      /\ \A j \in 1..(i - 1) : rs[j].target_depth # 0
         IN  NodeOk(rs[k].target)
    ELSE NodeErr

\* get_owner_by_name
get_owner_by_name(ns, name) ==
    IF \E i \in 1..Len(ns) : ns[i].name = name
    THEN LET k == CHOOSE i \in 1..Len(ns) :
                      /\ ns[i].name = name
                      /\ \A j \in 1..(i - 1) : ns[j].name # name
         IN  NodeOk(ns[k])
    ELSE NodeErr

\* get_direct_owners: one registry relation per predecessor vertex
get_direct_owners(rs, g, target) ==
    {DictGet(rs, EdgeData(g, u, target.id).id) :
        u \in {w \in Predecessors(g, target.id) :
                  HasKey(rs, EdgeData(g, w, target.id).id)}}

\* get_direct_owned: one registry relation per successor vertex
get_direct_owned(rs, g, source) ==
    {DictGet(rs, EdgeData(g, source.id, v).id) :
        v \in {w \in Successors(g, source.id) :
                  HasKey(rs, EdgeData(g, source.id, w).id)}}

\* get_all_owners
get_all_owners(ns, g, target) ==
    {DictGet(ns, n) : n \in {m \in Ancestors(g, target.id) : HasKey(ns, m)}}

\* mutant of PathLoop: each relation is inserted at the front of the list
RECURSIVE PathLoopPrepend(_, _, _, _)
PathLoopPrepend(rs, g, path, i) ==
    IF i > Len(path) - 1 THEN <<>>
    ELSE IF ~(\E e \in Edges(g) : e.u = path[i] /\ e.v = path[i + 1])
    THEN PathLoopPrepend(rs, g, path, i + 1)
    ELSE IF ~HasKey(rs, EdgeData(g, path[i], path[i + 1]).id)
    THEN PathLoopPrepend(rs, g, path, i + 1)
    ELSE PathLoopPrepend(rs, g, path, i + 1)
             \o <<DictGet(rs, EdgeData(g, path[i], path[i + 1]).id)>>

\* the loop of get_ownership_path over the hops path[i] -> path[i + 1]
RECURSIVE PathLoop(_, _, _, _)
PathLoop(rs, g, path, i) ==
    IF i > Len(path) - 1 THEN <<>>
    ELSE LET source_id == path[i]
             target_id == path[i + 1]
         IN  IF ~(\E e \in Edges(g) : e.u = source_id /\ e.v = target_id)
             THEN PathLoop(rs, g, path, i + 1)
             ELSE IF ~HasKey(rs, EdgeData(g, source_id, target_id).id)
             THEN PathLoop(rs, g, path, i + 1)
             ELSE <<DictGet(rs, EdgeData(g, source_id, target_id).id)>>
                      \o PathLoop(rs, g, path, i + 1)

\* list.reverse()
Reverse(q) == [i \in 1..Len(q) |-> q[Len(q) + 1 - i]]

\* relation.model_copy(update={"source": relation.target, "target": relation.source})
Flip(r) == [r EXCEPT !.source = r.target, !.target = r.source]

\* mutant of reverse_ownership_path: the list is not reversed
FlipWithoutReverse(ownership_path) ==
    [i \in 1..Len(ownership_path) |-> Flip(ownership_path[i])]

\* reverse_ownership_path
reverse_ownership_path(ownership_path) ==
    LET rev == Reverse(ownership_path)
    IN  [i \in 1..Len(rev) |-> Flip(rev[i])]

PathOk(q) == [ok |-> TRUE, val |-> q]
PathErr == [ok |-> FALSE, val |-> <<>>]

\* mutant of get_ownership_path: no path in either direction gives an empty list
get_ownership_path_no_raise(rs, g, source_node, target_node) ==
    IF HasPath(g, source_node.id, target_node.id)
    THEN PathOk(PathLoop(rs, g, ShortestPath(g, source_node.id, target_node.id), 1))
    ELSE IF HasPath(g, target_node.id, source_node.id)
    THEN PathOk(reverse_ownership_path(
             PathLoop(rs, g, ShortestPath(g, target_node.id, source_node.id), 1)))
    ELSE PathOk(<<>>)

\* get_ownership_path; PathErr is the ValueError "No ownership path"
get_ownership_path(rs, g, source_node, target_node) ==
    IF HasPath(g, source_node.id, target_node.id)
    THEN PathOk(PathLoop(rs, g, ShortestPath(g, source_node.id, target_node.id), 1))
    ELSE IF HasPath(g, target_node.id, source_node.id)
    THEN PathOk(reverse_ownership_path(
             PathLoop(rs, g, ShortestPath(g, target_node.id, source_node.id), 1)))
    ELSE PathErr

\* mutant of Compound: the average is compounded with the upper bounds
RECURSIVE CompoundUpperAsAverage(_, _, _)
CompoundUpperAsAverage(path, i, acc) ==
    IF i > Len(path) THEN acc
    ELSE CompoundUpperAsAverage(path, i + 1,
             ShareRange(RMul(acc.lower, RDiv(path[i].share.lower, RInt(100))),
                        RMul(acc.average, RDiv(path[i].share.upper, RInt(100))),
                        RMul(acc.upper, RDiv(path[i].share.upper, RInt(100)))))

\* mutant of Compound: the shares are multiplied as they are, not over 100
RECURSIVE CompoundNoPercent(_, _, _)
CompoundNoPercent(path, i, acc) ==
    IF i > Len(path) THEN acc
    ELSE CompoundNoPercent(path, i + 1,
             ShareRange(RMul(acc.lower, path[i].share.lower),
                        RMul(acc.average, path[i].share.average),
                        RMul(acc.upper, path[i].share.upper)))

\* the loop of get_real_ownership over path[i..]
RECURSIVE Compound(_, _, _)
Compound(path, i, acc) ==
    IF i > Len(path) THEN acc
    ELSE Compound(path, i + 1,
             ShareRange(RMul(acc.lower, RDiv(path[i].share.lower, RInt(100))),
                        RMul(acc.average, RDiv(path[i].share.average, RInt(100))),
                        RMul(acc.upper, RDiv(path[i].share.upper, RInt(100)))))

\* mutant of get_real_ownership: a path with an inactive relation raises
get_real_ownership_active_only(rs, g, source_node, target_node) ==
    LET path == get_ownership_path(rs, g, source_node, target_node)
    IN  IF ~path.ok \/ (\E i \in 1..Len(path.val) : ~path.val[i].active) THEN Err
        ELSE Ok(Compound(path.val, 1, ShareRange(RInt(100), RInt(100), RInt(100))))

\* get_real_ownership; Err is the error of get_ownership_path
get_real_ownership(rs, g, source_node, target_node) ==
    LET path == get_ownership_path(rs, g, source_node, target_node)
    IN  IF ~path.ok THEN Err
        ELSE Ok(Compound(path.val, 1, ShareRange(RInt(100), RInt(100), RInt(100))))

\* ------------------------------------------------------ calculate command
\* a line written by typer.echo or typer.secho
Line(kind, s, t, sh) == [kind |-> kind, source |-> s, target |-> t, share |-> sh]

\* "Ownership path from {source_company.name} to {target_company.name}:"
PathLine(s, t) == Line("path", s.name, t.name, NoShare)
\* " Warning: The ownership path contains inactive relations."
WarningLine == Line("warning", "", "", NoShare)
\* " {relationship.source.name} -> {relationship.target.name} ({relationship.share} )"
RelationLine(r) == Line("relation", r.source.name, r.target.name, r.share)
\* "Total ownership: {real_ownership}"
TotalLine(sh) == Line("total", "", "", sh)
\* "Unable to calculate real ownership due to inactive relations."
UnableLine == Line("unable", "", "", NoShare)
\* "File Validation Error: {e}"
FileErrorLine == Line("file_error", "", "", NoShare)

\* mutant of CalcLoop: the flag is assigned at every relation
RECURSIVE CalcLoopLastHop(_, _, _, _)
CalcLoopLastHop(path, i, has_inactive_relations, lines) ==
    IF i > Len(path)
    THEN [has_inactive_relations |-> has_inactive_relations, out |-> lines]
    ELSE IF ~path[i].active
    THEN CalcLoopLastHop(path, i + 1, TRUE,
                         lines \o <<WarningLine, RelationLine(path[i])>>)
    ELSE CalcLoopLastHop(path, i + 1, FALSE, lines \o <<RelationLine(path[i])>>)

\* the loop of calculate over ownership_path[i..]
RECURSIVE CalcLoop(_, _, _, _)
CalcLoop(path, i, has_inactive_relations, lines) ==
    IF i > Len(path)
    THEN [has_inactive_relations |-> has_inactive_relations, out |-> lines]
    ELSE IF ~path[i].active
    THEN CalcLoop(path, i + 1, TRUE, lines \o <<WarningLine, RelationLine(path[i])>>)
    ELSE CalcLoop(path, i + 1, has_inactive_relations,
                  lines \o <<RelationLine(path[i])>>)

\* the outcome of a run of calculate: whether it ended in an exception, the
\* lines written, the methods called, the graph object and the values it held
CalcResult(e, lines, cs, ns, rs, g, s, t, p, sh) ==
    [err |-> e, out |-> lines, calls |-> cs, nodes |-> ns, relations |-> rs,
     graph |-> g, source_company |-> s, target_company |-> t,
     ownership_path |-> p, real_ownership |-> sh]

\* calculate from the call of get_real_ownership on
CalcTotal(ns, rs, g, s, t, cs, p, lines, real_ownership) ==
    IF ~real_ownership.ok
    THEN CalcResult(TRUE, lines, cs, ns, rs, g, s, t, p, NoShare)
    ELSE CalcResult(FALSE, Append(lines, TotalLine(real_ownership.val)), cs,
                    ns, rs, g, s, t, p, real_ownership.val)

\* calculate after the loop l over the path p
CalcAfterLoop(ns, rs, g, s, t, cs, p, l) ==
    IF l.has_inactive_relations
    THEN CalcResult(FALSE, Append(l.out, UnableLine), cs, ns, rs, g, s, t, p, NoShare)
    ELSE CalcTotal(ns, rs, g, s, t, Append(cs, "get_real_ownership"), p, l.out,
                   get_real_ownership(rs, g, s, t))

\* calculate from the outcome ownership_path of get_ownership_path on
CalcPath(ns, rs, g, s, t, cs, ownership_path) ==
    IF ~ownership_path.ok
    THEN CalcResult(TRUE, <<>>, cs, ns, rs, g, s, t, <<>>, NoShare)
    ELSE CalcAfterLoop(ns, rs, g, s, t, cs, ownership_path.val,
                       CalcLoop(ownership_path.val, 1, FALSE, <<PathLine(s, t)>>))

\* calculate with the graph g that get_ownership_path builds
CalcGraph(ns, rs, g, s, t, cs) ==
    CalcPath(ns, rs, g, s, t, cs, get_ownership_path(rs, g, s, t))

\* calculate from the outcome source_company of get_owner_by_name(company) on
CalcSource(ns, rs, t, cs, source_company) ==
    IF ~source_company.ok
    THEN CalcResult(TRUE, <<>>, cs, ns, rs, NoGraph, NoNode, t, <<>>, NoShare)
    ELSE CalcGraph(ns, rs, get_graph(ns, rs, NoGraph), source_company.val, t,
                   Append(cs, "get_ownership_path"))

\* calculate from the outcome target_company on
CalcTarget(ns, rs, cs, company, target_company) ==
    IF ~target_company.ok
    THEN CalcResult(TRUE, <<>>, cs, ns, rs, NoGraph, NoNode, NoNode, <<>>, NoShare)
    ELSE CalcSource(ns, rs, target_company.val, Append(cs, "get_owner_by_name"),
                    get_owner_by_name(ns, company))

\* calculate from the outcome o of from_relation_data on
CalcBuilt(o, company, target) ==
    IF ~o.ok
    THEN CalcResult(TRUE, <<>>, <<"from_relation_data">>, <<>>, <<>>, NoGraph,
                    NoNode, NoNode, <<>>, NoShare)
    ELSE IF target # ""
    THEN CalcTarget(o.nodes, o.relations, <<"from_relation_data", "get_owner_by_name">>,
                    company, get_owner_by_name(o.nodes, target))
    ELSE CalcTarget(o.nodes, o.relations, <<"from_relation_data", "get_focus_company">>,
                    company, get_focus_company(o.relations))

\* calculate; valid is the verdict of validate_file, data the loaded records,
\* target "" stands for an option not given; only FileValidationError is caught
calculate(valid, data, company, target) ==
    IF ~valid
    THEN CalcResult(TRUE, <<FileErrorLine>>, <<>>, <<>>, <<>>, NoGraph,
                    NoNode, NoNode, <<>>, NoShare)
    ELSE CalcBuilt(from_relation_data(data), company, target)

\* ---------------------------------------------------------------- state
VARIABLES
    pc,         \* "new": no graph object yet; "built"; "failed": construction raised
    records,    \* the record list handed to from_relation_data
    share,      \* the string handed to ShareRange.from_share_string alone
    nodes,      \* OwnershipGraph.nodes
    relations,  \* OwnershipGraph.relations
    graph,      \* OwnershipGraph.graph
    op,         \* the last operation called
    arg1,       \* its first entity argument
    arg2,       \* its second entity argument
    err,        \* whether it raised
    retPath,    \* the list it returned
    retRels,    \* the set of relations it returned
    retNodes,   \* the set of entities it returned
    retNode,    \* the entity it returned
    retShare,   \* the ShareRange it returned
    out,        \* the lines the calculate command wrote
    calls       \* the graph methods the calculate command called, in order

vars == <<pc, records, share, nodes, relations, graph, op, arg1, arg2, err,
          retPath, retRels, retNodes, retNode, retShare, out, calls>>

\* ---------------------------------------------------------------- inputs
NodeIds == 1..MaxNode

CompanyNames == <<"Company A", "Company B", "Company C", "Company D", "Company E">>
NameOf(i) == CompanyNames[i]

\* an OwnershipRelationData; the real_*_share fields are never read
RelationData(i, src, sname, sd, tgt, tname, td, sh, act) ==
    [id |-> i, source |-> src, source_name |-> sname, source_depth |-> sd,
     target |-> tgt, target_name |-> tname, target_depth |-> td,
     share |-> sh, active |-> act]

\* share, activity and depths of the rows of tests/fixtures.py; the second row
\* is inactive, as the first record of tests/test_models.py is
FixtureRows ==
    <<[share |-> HundredPct, active |-> TRUE, source_depth |-> 1, target_depth |-> 0],
      [share |-> <<"5", "0", "-", "6", "7", "%">>, active |-> FALSE,
       source_depth |-> 1, target_depth |-> 0],
      [share |-> <<"<", "5", "%">>, active |-> TRUE, source_depth |-> 2, target_depth |-> 1]>>

RowAt(i) == FixtureRows[((i - 1) % Len(FixtureRows)) + 1]

\* the i-th record of a list: relation id i, the attributes of fixture row i,
\* joining the entities src and tgt
TopologyRecord(i, src, tgt) ==
    RelationData(i, src, NameOf(src), RowAt(i).source_depth,
                 tgt, NameOf(tgt), RowAt(i).target_depth,
                 RowAt(i).share, RowAt(i).active)

\* a record with a chosen relation id and target depth
DataRecord(i, id, src, tgt, td) ==
    RelationData(id, src, NameOf(src), td + 1, tgt, NameOf(tgt), td,
                 RowAt(i).share, RowAt(i).active)

Chars == {"0", "1", "5", "<", "-", "%"}
Strings == UNION {[1..n -> Chars] : n \in 0..MaxLen}

NoResult ==
    /\ arg1 = NoNode /\ arg2 = NoNode /\ err = FALSE
    /\ retPath = <<>> /\ retRels = {} /\ retNodes = {}
    /\ retNode = NoNode /\ retShare = NoShare
    /\ out = <<>> /\ calls = <<>>

InitObject ==
    /\ pc = "new" /\ nodes = <<>> /\ relations = <<>> /\ graph = NoGraph
    /\ op = "none" /\ NoResult

\* every list of at most MaxRecs records over the entities, relation ids distinct
Init ==
    /\ \E n \in 0..MaxRecs : \E f \in [1..n -> NodeIds \X NodeIds] :
           records = [i \in 1..n |-> TopologyRecord(i, f[i][1], f[i][2])]
    /\ share = <<>>
    /\ InitObject

\* every list of at most MaxData records with relation ids in 1..MaxRelId
\* (repeated ids included) and target depths 0 or 1
InitData ==
    /\ \E n \in 0..MaxData :
       \E f \in [1..n -> (1..MaxRelId) \X NodeIds \X NodeIds \X {0, 1}] :
           records = [i \in 1..n |-> DataRecord(i, f[i][1], f[i][2], f[i][3], f[i][4])]
    /\ share = <<>>
    /\ InitObject

InitShare ==
    /\ records = <<>>
    /\ share \in Strings
    /\ InitObject

\* --------------------------------------------------------------- actions
\* the entities a caller can hold: registry entries and relation endpoints
KnownNodes ==
    Values(nodes) \cup {r.source : r \in Values(relations)}
                  \cup {r.target : r \in Values(relations)}

Result(o, a, b, e, p, rs, ns, n, sh) ==
    /\ op' = o /\ arg1' = a /\ arg2' = b /\ err' = e
    /\ retPath' = p /\ retRels' = rs /\ retNodes' = ns
    /\ retNode' = n /\ retShare' = sh
    /\ UNCHANGED <<out, calls>>

FromShareString ==
    /\ pc = "new"
    /\ LET r == from_share_string(share)
       IN  Result("from_share_string", NoNode, NoNode, ~r.ok, <<>>, {}, {}, NoNode, r.val)
    /\ UNCHANGED <<pc, records, share, nodes, relations, graph>>

FromRelationData ==
    /\ LET r == from_relation_data(records)
       IN  /\ pc' = IF r.ok THEN "built" ELSE "failed"
           /\ nodes' = r.nodes
           /\ relations' = r.relations
           /\ graph' = NoGraph
           /\ Result("from_relation_data", NoNode, NoNode, ~r.ok, <<>>, {}, {}, NoNode, NoShare)
    /\ UNCHANGED <<records, share>>

GetGraph ==
    /\ pc = "built"
    /\ graph' = get_graph(nodes, relations, graph)
    /\ Result("get_graph", NoNode, NoNode, FALSE, <<>>, {}, {}, NoNode, NoShare)
    /\ UNCHANGED <<pc, records, share, nodes, relations>>

GetFocusCompany ==
    /\ pc = "built"
    /\ LET r == get_focus_company(relations)
       IN  Result("get_focus_company", NoNode, NoNode, ~r.ok, <<>>, {}, {}, r.val, NoShare)
    /\ UNCHANGED <<pc, records, share, nodes, relations, graph>>

GetOwnerByName ==
    /\ pc = "built"
    /\ \E i \in 1..(MaxNode + 1) :
           LET r == get_owner_by_name(nodes, NameOf(i))
           IN  Result("get_owner_by_name", OwnershipNode(0, NameOf(i)), NoNode,
                      ~r.ok, <<>>, {}, {}, r.val, NoShare)
    /\ UNCHANGED <<pc, records, share, nodes, relations, graph>>

GetDirectOwners ==
    /\ pc = "built"
    /\ \E target \in KnownNodes :
           LET g == get_graph(nodes, relations, graph)
           IN  /\ graph' = g
               /\ Result("get_direct_owners", target, NoNode, FALSE, <<>>,
                         get_direct_owners(relations, g, target), {}, NoNode, NoShare)
    /\ UNCHANGED <<pc, records, share, nodes, relations>>

GetDirectOwned ==
    /\ pc = "built"
    /\ \E source \in KnownNodes :
           LET g == get_graph(nodes, relations, graph)
           IN  /\ graph' = g
               /\ Result("get_direct_owned", source, NoNode, FALSE, <<>>,
                         get_direct_owned(relations, g, source), {}, NoNode, NoShare)
    /\ UNCHANGED <<pc, records, share, nodes, relations>>

GetAllOwners ==
    /\ pc = "built"
    /\ \E target \in KnownNodes :
           LET g == get_graph(nodes, relations, graph)
           IN  /\ graph' = g
               /\ Result("get_all_owners", target, NoNode, FALSE, <<>>, {},
                         get_all_owners(nodes, g, target), NoNode, NoShare)
    /\ UNCHANGED <<pc, records, share, nodes, relations>>

\* the registry rs after storing every relation of path[i..] under its id
RECURSIVE StoreAll(_, _, _)
StoreAll(rs, path, i) ==
    IF i > Len(path) THEN rs ELSE StoreAll(DictPut(rs, path[i]), path, i + 1)

\* mutant of GetOwnershipPath: the relations of the returned path are written
\* back to the registry, the flipped ones included
GetOwnershipPathInPlace ==
    /\ pc = "built"
    /\ \E source_node \in KnownNodes, target_node \in KnownNodes :
           LET g == get_graph(nodes, relations, graph)
               r == get_ownership_path(relations, g, source_node, target_node)
           IN  /\ graph' = g
               /\ relations' = StoreAll(relations, r.val, 1)
               /\ Result("get_ownership_path", source_node, target_node, ~r.ok,
                         r.val, {}, {}, NoNode, NoShare)
    /\ UNCHANGED <<pc, records, share, nodes>>

GetOwnershipPath ==
    /\ pc = "built"
    /\ \E source_node \in KnownNodes, target_node \in KnownNodes :
           LET g == get_graph(nodes, relations, graph)
               r == get_ownership_path(relations, g, source_node, target_node)
           IN  /\ graph' = g
               /\ Result("get_ownership_path", source_node, target_node, ~r.ok,
                         r.val, {}, {}, NoNode, NoShare)
    /\ UNCHANGED <<pc, records, share, nodes, relations>>

GetRealOwnership ==
    /\ pc = "built"
    /\ \E source_node \in KnownNodes, target_node \in KnownNodes :
           LET g == get_graph(nodes, relations, graph)
               r == get_real_ownership(relations, g, source_node, target_node)
           IN  /\ graph' = g
               /\ Result("get_real_ownership", source_node, target_node, ~r.ok,
                         <<>>, {}, {}, NoNode, r.val)
    /\ UNCHANGED <<pc, records, share, nodes, relations>>

Next ==
    \/ FromRelationData
    \/ GetGraph
    \/ GetFocusCompany
    \/ GetOwnerByName
    \/ GetDirectOwners
    \/ GetDirectOwned
    \/ GetAllOwners
    \/ GetOwnershipPath
    \/ GetRealOwnership

NextShare == FromShareString

Spec == Init /\ [][Next]_vars

SpecData == InitData /\ [][Next]_vars

SpecShare == InitShare /\ [][NextShare]_vars

\* ------------------------------------------- records that disagree on names
\* a record whose source and target carry the names of the entities sn and tn
NamedRecord(i, id, src, sn, tgt, tn) ==
    RelationData(id, src, NameOf(sn), RowAt(i).source_depth,
                 tgt, NameOf(tn), RowAt(i).target_depth,
                 RowAt(i).share, RowAt(i).active)

\* every list of at most MaxData records with relation ids in 1..MaxRelId, each
\* endpoint named by its own name or by the name of the next entity
InitNames ==
    /\ \E n \in 0..MaxData :
       \E f \in [1..n -> (1..MaxRelId) \X NodeIds \X {0, 1} \X NodeIds \X {0, 1}] :
           records = [i \in 1..n |->
                         NamedRecord(i, f[i][1], f[i][2], f[i][2] + f[i][3],
                                     f[i][4], f[i][4] + f[i][5])]
    /\ share = <<>>
    /\ InitObject

NextNames == FromRelationData

SpecNames == InitNames /\ [][NextNames]_vars

\* ------------------------------------------------ assignment to a field
\* model_config of GraphModels sets arbitrary_types_allowed and not frozen
OwnershipGraphFrozen == FALSE

\* graph.nodes = value
SetNodes ==
    /\ pc = "built"
    /\ \E value \in {<<>>, <<OwnershipNode(MaxNode + 1, "test")>>} :
           IF OwnershipGraphFrozen
           THEN /\ nodes' = nodes
                /\ Result("setattr_nodes", NoNode, NoNode, TRUE, <<>>, {}, {}, NoNode, NoShare)
           ELSE /\ nodes' = value
                /\ Result("setattr_nodes", NoNode, NoNode, FALSE, <<>>, {}, {}, NoNode, NoShare)
    /\ UNCHANGED <<pc, records, share, relations, graph>>

NextAssign ==
    \/ FromRelationData
    \/ SetNodes

SpecAssign == Init /\ [][NextAssign]_vars

\* ------------------------------------------------- the calculate command
\* the i-th record of a file: as TopologyRecord, with a chosen active flag
FileRecord(i, src, tgt, act) ==
    RelationData(i, src, NameOf(src), RowAt(i).source_depth,
                 tgt, NameOf(tgt), RowAt(i).target_depth,
                 RowAt(i).share, act)

\* every file of at most MaxData records, each active or not
InitCalc ==
    /\ \E n \in 0..MaxData : \E f \in [1..n -> NodeIds \X NodeIds \X BOOLEAN] :
           records = [i \in 1..n |-> FileRecord(i, f[i][1], f[i][2], f[i][3])]
    /\ share = <<>>
    /\ InitObject

\* one run of the command, from its arguments to its exit
Calculate ==
    /\ pc = "new"
    /\ \E valid \in BOOLEAN, c \in 1..(MaxNode + 1), t \in 0..(MaxNode + 1) :
           LET r == calculate(valid, records, NameOf(c), IF t = 0 THEN "" ELSE NameOf(t))
           IN  /\ nodes' = r.nodes /\ relations' = r.relations /\ graph' = r.graph
               /\ op' = "calculate"
               /\ arg1' = r.source_company /\ arg2' = r.target_company
               /\ err' = r.err
               /\ retPath' = r.ownership_path /\ retShare' = r.real_ownership
               /\ out' = r.out /\ calls' = r.calls
    /\ pc' = "exited"
    /\ UNCHANGED <<records, share, retRels, retNodes, retNode>>

NextCalc == Calculate

SpecCalc == InitCalc /\ [][NextCalc]_vars

\* ------------------------------------------------ ownership in the registry
\* the entities one ownership relation of the registry away from those of S
OwnedBy(S) == {r.target.id : r \in {q \in Values(relations) : q.source.id \in S}}

RECURSIVE OwnedClosure(_)
OwnedClosure(S) ==
    LET n == S \cup OwnedBy(S) IN IF n = S THEN S ELSE OwnedClosure(n)

\* a directed chain of registry relations leads from s to t (s = t included)
Owns(s, t) == t \in OwnedClosure({s})

\* the entities exactly k relations away from those of S
RECURSIVE OwnedAt(_, _)
OwnedAt(S, k) == IF k = 0 THEN S ELSE OwnedAt(OwnedBy(S), k - 1)

\* the least number of relations on a chain from s to t
MinHops(s, t) ==
    CHOOSE k \in 0..Len(nodes) :
        t \in OwnedAt({s}, k) /\ \A j \in 0..(k - 1) : t \notin OwnedAt({s}, j)

\* p reads as a chain of relations from s to t
Chain(p, s, t) ==
    IF p = <<>> THEN s = t
    ELSE /\ p[1].source.id = s
         /\ p[Len(p)].target.id = t
         /\ \A i \in 1..(Len(p) - 1) : p[i].target.id = p[i + 1].source.id

OnACycle == \E r \in Values(relations) :
                r.source.id # r.target.id /\ Owns(r.target.id, r.source.id)

\* ----------------------------------------------------------------- claims
\* C1: when a directed path leads from s to t, get_ownership_path(s, t)
\* returns registry relations, unflipped, that read as a chain from s to t
C1_ForwardPathIsChain ==
    (op = "get_ownership_path" /\ Owns(arg1.id, arg2.id)) =>
        /\ ~err
        /\ Chain(retPath, arg1.id, arg2.id)
        /\ \A i \in 1..Len(retPath) : retPath[i] \in Values(relations)

\* C1 witness: a two-hop forward path in a graph with a cycle
C1_Witness ==
    /\ op = "get_ownership_path" /\ Owns(arg1.id, arg2.id) /\ OnACycle
    /\ ~err /\ Len(retPath) = 2

\* the registry relation a returned relation was copied from
Original(r) == DictGet(relations, r.id)

\* C2: with no path from s to t but one from t to s, get_ownership_path(s, t)
\* returns the t-to-s path reversed, every relation with source and target
\* swapped and with id, share, active and depths unchanged
C2_ReversePathIsFlipped ==
    (op = "get_ownership_path" /\ ~Owns(arg1.id, arg2.id) /\ Owns(arg2.id, arg1.id)) =>
        /\ ~err
        /\ Chain(retPath, arg1.id, arg2.id)
        /\ \A i \in 1..Len(retPath) :
               /\ HasKey(relations, retPath[i].id)
               /\ retPath[i].source = Original(retPath[i]).target
               /\ retPath[i].target = Original(retPath[i]).source
               /\ retPath[i].share = Original(retPath[i]).share
               /\ retPath[i].active = Original(retPath[i]).active
               /\ retPath[i].source_depth = Original(retPath[i]).source_depth
               /\ retPath[i].target_depth = Original(retPath[i]).target_depth
        /\ Chain([i \in 1..Len(retPath) |-> Original(retPath[Len(retPath) + 1 - i])],
                 arg2.id, arg1.id)

\* C2 witness: a reversed two-hop path whose relations differ in share and activity
C2_Witness ==
    /\ op = "get_ownership_path" /\ ~Owns(arg1.id, arg2.id) /\ Owns(arg2.id, arg1.id)
    /\ ~err /\ Len(retPath) = 2
    /\ retPath[1].active # retPath[2].active
    /\ retPath[1].share # retPath[2].share

\* C3: with no path in either direction get_ownership_path and
\* get_real_ownership raise and return nothing
C3_NoPathRaises ==
    (/\ op \in {"get_ownership_path", "get_real_ownership"}
     /\ ~Owns(arg1.id, arg2.id) /\ ~Owns(arg2.id, arg1.id)) =>
        err /\ retPath = <<>> /\ retShare = NoShare

\* C3 witness: get_real_ownership raised on two unconnected entities of a graph
\* with relations
C3_Witness ==
    /\ op = "get_real_ownership" /\ err /\ Len(relations) >= 2
    /\ ~Owns(arg1.id, arg2.id) /\ ~Owns(arg2.id, arg1.id)

\* the product of the bounds fld of the shares on p, each over 100
RECURSIVE Product(_, _)
Product(p, fld) ==
    IF p = <<>> THEN RInt(1)
    ELSE RMul(RDiv(Head(p).share[fld], RInt(100)), Product(Tail(p), fld))

\* C4: get_real_ownership returns, bound by bound, 100 times the product of
\* share/100 over the relations of get_ownership_path, and (100, 100, 100) on
\* an empty path
C4_RealOwnershipIsProduct ==
    (op = "get_real_ownership" /\ ~err) =>
        LET p == get_ownership_path(relations, graph, arg1, arg2).val
        IN  /\ retShare.lower = RMul(RInt(100), Product(p, "lower"))
            /\ retShare.average = RMul(RInt(100), Product(p, "average"))
            /\ retShare.upper = RMul(RInt(100), Product(p, "upper"))
            /\ (arg1.id = arg2.id =>
                    p = <<>> /\ retShare = ShareRange(RInt(100), RInt(100), RInt(100)))

\* C4 witness: "<5%" then "50-67%" compound to (0, 1.4625, 3.35)
C4_Witness ==
    /\ op = "get_real_ownership" /\ ~err
    /\ retShare = ShareRange(RInt(0), Rat(117, 80), Rat(67, 20))

\* C5: the returned path has the least hop count in the direction used
C5_PathIsShortest ==
    (op = "get_ownership_path" /\ ~err) =>
        Len(retPath) = IF Owns(arg1.id, arg2.id)
                       THEN MinHops(arg1.id, arg2.id)
                       ELSE MinHops(arg2.id, arg1.id)

\* C5 witness: a one-hop path returned where a two-hop chain exists as well
C5_Witness ==
    /\ op = "get_ownership_path" /\ ~err /\ Len(retPath) = 1
    /\ arg1.id # arg2.id
    /\ \E m \in NodeIds \ {arg1.id, arg2.id} :
           /\ m \in OwnedBy({retPath[1].source.id})
           /\ retPath[1].target.id \in OwnedBy({m})

\* the registry relations with target id x, and with source id x
RelationsInto(x) == {r \in Values(relations) : r.target.id = x}
RelationsOutOf(x) == {r \in Values(relations) : r.source.id = x}

\* relations[i] is the last relation of the registry on its ordered pair
LastOnPair(i) ==
    \A j \in (i + 1)..Len(relations) :
        ~(/\ relations[j].source.id = relations[i].source.id
          /\ relations[j].target.id = relations[i].target.id)

LastRelations == {relations[i] : i \in {j \in 1..Len(relations) : LastOnPair(j)}}

\* C6 as stated: get_direct_owners(x) is exactly the registry relations with
\* target x, get_direct_owned(x) exactly those with source x
C6_Original ==
    /\ op = "get_direct_owners" => retRels = RelationsInto(arg1.id)
    /\ op = "get_direct_owned" => retRels = RelationsOutOf(arg1.id)

\* C6 amended: get_direct_owners(x) is exactly the registry relations with
\* target x that are the last of the registry on their ordered (source, target)
\* pair, get_direct_owned(x) the same of those with source x
C6_LastRelationPerPair ==
    /\ op = "get_direct_owners" => retRels = RelationsInto(arg1.id) \cap LastRelations
    /\ op = "get_direct_owned" => retRels = RelationsOutOf(arg1.id) \cap LastRelations

\* C6 witness: get_direct_owners returned two of three relations into x, two of
\* which join the same ordered pair
C6_Witness ==
    /\ op = "get_direct_owners"
    /\ Cardinality(RelationsInto(arg1.id)) = 3
    /\ Cardinality(retRels) = 2

\* the sources of the direct owners of the entities of S
DirectOwnerSources(S) ==
    UNION {{r.source : r \in get_direct_owners(relations, graph, n)} : n \in S}

RECURSIVE DirectOwnersFix(_)
DirectOwnersFix(S) ==
    LET n == S \cup DirectOwnerSources(S) IN IF n = S THEN S ELSE DirectOwnersFix(n)

\* the fixed point of get_direct_owners from t, the sources collected
AllDirectOwners(t) == DirectOwnersFix(DirectOwnerSources({t}))

\* the registry entities, t excluded, with a chain of relations to t
OwnersOf(t) == {n \in Values(nodes) : n.id # t.id /\ Owns(n.id, t.id)}

\* C7 as stated: get_all_owners(t) is the set of entities, t excluded, with a
\* path to t, and equals the fixed point of get_direct_owners from t
C7_Original ==
    op = "get_all_owners" =>
        /\ retNodes = OwnersOf(arg1)
        /\ retNodes = AllDirectOwners(arg1)

\* C7 amended: get_all_owners(t) is the set of entities, t excluded, with a
\* path to t, and equals the fixed point of get_direct_owners from t with t
\* itself removed
C7_AllOwnersIsClosure ==
    op = "get_all_owners" =>
        /\ ~err
        /\ retNodes = OwnersOf(arg1)
        /\ retNodes = AllDirectOwners(arg1) \ {arg1}

\* C7 witness: t lies on a cycle and has an owner two relations away
C7_Witness ==
    /\ op = "get_all_owners"
    /\ arg1 \in AllDirectOwners(arg1)
    /\ \E n \in retNodes : n.id \notin {r.source.id : r \in RelationsInto(arg1.id)}

\* C8: get_focus_company returns the target of the first relation of the
\* registry with target_depth 0, and raises when there is none
C8_FocusIsFirstDepthZero ==
    op = "get_focus_company" =>
        IF \E r \in Values(relations) : r.target_depth = 0
        THEN /\ ~err
             /\ \E i \in 1..Len(relations) :
                    /\ relations[i].target_depth = 0
                    /\ \A j \in 1..(i - 1) : relations[j].target_depth # 0
                    /\ retNode = relations[i].target
        ELSE err /\ retNode = NoNode

\* C8 witness: two relations of depth 0 with different targets
C8_Witness ==
    /\ op = "get_focus_company" /\ ~err
    /\ \E q, r \in Values(relations) :
           q.target_depth = 0 /\ r.target_depth = 0 /\ q.target # r.target

\* C8 witness of the failure: relations, none of depth 0
C8_WitnessNotFound ==
    op = "get_focus_company" /\ err /\ Len(relations) = 2

DistinctIds ==
    \A i, j \in 1..Len(records) : i # j => records[i].id # records[j].id

EntityIds == {records[i].source : i \in 1..Len(records)}
                 \cup {records[i].target : i \in 1..Len(records)}

\* C9, the registries: N records with distinct relation ids give one node per
\* entity id and N relations
C9_Registries ==
    (pc = "built" /\ DistinctIds) =>
        /\ Len(relations) = Len(records)
        /\ {nodes[i].id : i \in 1..Len(nodes)} = EntityIds
        /\ Len(nodes) = Cardinality(EntityIds)

\* C9, building again from the same records gives the same counts
C9_Rebuild ==
    (pc = "built" /\ op' = "from_relation_data") =>
        /\ pc' = "built"
        /\ Len(nodes') = Len(nodes)
        /\ Len(relations') = Len(relations)

\* C9: from_relation_data on N records with pairwise distinct relation ids
\* yields one node per distinct entity id and N relations, and building again
\* from the same records yields the same counts
C9_DedupCounts == [](C9_Registries) /\ [][C9_Rebuild]_vars

\* C9 witness: two records with distinct ids that share an entity
C9_Witness ==
    /\ pc = "built" /\ op = "from_relation_data" /\ DistinctIds
    /\ Len(records) = 2 /\ Len(nodes) = 3

\* s without a trailing "%"
StripPercent(s) ==
    IF s # <<>> /\ s[Len(s)] = "%" THEN SubSeq(s, 1, Len(s) - 1) ELSE s

HasDash(s) == \E i \in 1..Len(s) : s[i] = "-"

\* C10: from_share_string gives (100, 100, 100) on "100%"; on a leading "<",
\* lower 0, upper the number left without the "<" and the trailing "%", average
\* upper/2; on a "-", lower and upper the two numbers around it without the
\* trailing "%", average their mean; and raises on every other string
C10_Original ==
    op = "from_share_string" =>
        /\ share = HundredPct =>
               ~err /\ retShare = ShareRange(RInt(100), RInt(100), RInt(100))
        /\ (/\ share # HundredPct /\ share # <<>> /\ share[1] = "<"
            /\ FloatOk(StripPercent(Tail(share)))) =>
               LET n == Float(StripPercent(Tail(share)))
               IN  ~err /\ retShare = ShareRange(RInt(0), RDiv(n, RInt(2)), n)
        /\ (/\ share # HundredPct /\ share # <<>> /\ share[1] # "<" /\ HasDash(share)
            /\ Len(Split(StripPercent(share))) = 2
            /\ FloatOk(Split(StripPercent(share))[1])
            /\ FloatOk(Split(StripPercent(share))[2])) =>
               LET lo == Float(Split(StripPercent(share))[1])
                   up == Float(Split(StripPercent(share))[2])
               IN  ~err /\ retShare = ShareRange(lo, RDiv(RAdd(lo, up), RInt(2)), up)
        /\ (share # HundredPct /\ ~HasDash(share) /\ (share = <<>> \/ share[1] # "<")) =>
               err /\ retShare = NoShare

\* a ShareRange with lower <= average <= upper
Ordered(sh) == RLe(sh.lower, sh.average) /\ RLe(sh.average, sh.upper)

\* C11: every ShareRange that from_share_string returns without error has
\* lower <= average <= upper
C11_Original ==
    (op = "from_share_string" /\ ~err) => Ordered(retShare)

\* the operations that call get_graph
GraphUsing ==
    {"get_graph", "get_direct_owners", "get_direct_owned", "get_all_owners",
     "get_ownership_path", "get_real_ownership"}

\* g has one vertex per registry node, with its name, and one edge per ordered
\* pair of entities joined by a registry relation, attributed from such a relation
GraphOfRegistries(g, ns, rs) ==
    /\ Len(g.node) = Len(ns)
    /\ \A i \in 1..Len(ns) : g.node[i].id = ns[i].id /\ g.node[i].name = ns[i].name
    /\ {<<g.edge[i].u, g.edge[i].v>> : i \in 1..Len(g.edge)}
           = {<<rs[i].source.id, rs[i].target.id>> : i \in 1..Len(rs)}
    /\ \A i, j \in 1..Len(g.edge) :
           (g.edge[i].u = g.edge[j].u /\ g.edge[i].v = g.edge[j].v) => i = j
    /\ \A i \in 1..Len(g.edge) : \E k \in 1..Len(rs) :
           /\ rs[k].id = g.edge[i].attr.id
           /\ rs[k].source.id = g.edge[i].u /\ rs[k].target.id = g.edge[i].v
           /\ rs[k].share.lower = g.edge[i].attr.lower
           /\ rs[k].share.average = g.edge[i].attr.average
           /\ rs[k].share.upper = g.edge[i].attr.upper
           /\ rs[k].active = g.edge[i].attr.active
           /\ rs[k].source_depth = g.edge[i].attr.source_depth
           /\ rs[k].target_depth = g.edge[i].attr.target_depth

\* C12, lazy: a graph object fresh from from_relation_data has no derived graph
C12_Lazy == op = "from_relation_data" => graph = NoGraph

\* C12, memoized: a call that uses get_graph leaves the graph built from the
\* registries, and once built the graph of the object never changes
C12_Step ==
    (pc = "built" /\ op' # "from_relation_data") =>
        /\ op' \in GraphUsing => graph'.built /\ GraphOfRegistries(graph', nodes, relations)
        /\ op' \notin GraphUsing => graph' = graph
        /\ graph.built => graph' = graph

\* C12: the derived graph is not built by from_relation_data, is built by the
\* first get_graph call (direct or through a query) with one vertex per
\* registry node and the edges of the relations, and is afterwards returned
\* unchanged and never rebuilt or reset during the life of the object
C12_LazyMemoized == [](C12_Lazy) /\ [][C12_Step]_vars

\* C12 witness: a built graph of three vertices and two edges after get_graph
C12_Witness ==
    /\ op = "get_graph" /\ graph.built
    /\ Len(graph.node) = 3 /\ Len(graph.edge) = 2 /\ Len(relations) = 3

\* the records recs with the active flags replaced by flags
WithActivity(recs, flags) ==
    [i \in 1..Len(recs) |-> [recs[i] EXCEPT !.active = flags[i]]]

\* C15: get_real_ownership does not consult activity: on the graph of the same
\* records under any other choice of the active flags it gives the same outcome
\* for the same pair, and it returns a number whenever a path exists in either
\* direction, inactive relations on it or not
C15_ActivityIgnored ==
    op = "get_real_ownership" =>
        /\ (Owns(arg1.id, arg2.id) \/ Owns(arg2.id, arg1.id)) => ~err
        /\ \A flags \in [1..Len(records) -> BOOLEAN] :
               LET o == from_relation_data(WithActivity(records, flags))
                   g == get_graph(o.nodes, o.relations, NoGraph)
                   r == get_real_ownership(o.relations, g, arg1, arg2)
               IN  o.ok /\ r.ok = ~err /\ r.val = retShare

\* C15 witness: a number returned over a two-hop path with an inactive relation
C15_Witness ==
    /\ op = "get_real_ownership" /\ ~err /\ retShare # NoShare
    /\ LET p == get_ownership_path(relations, graph, arg1, arg2).val
       IN  Len(p) = 2 /\ \E i \in 1..2 : ~p[i].active

\* C17, registries: the registries are those from_relation_data built, and
\* every registry relation joins the source and target of a record of its id
C17_Registries ==
    pc = "built" =>
        /\ nodes = from_relation_data(records).nodes
        /\ relations = from_relation_data(records).relations
        /\ \A r \in Values(relations) : \E k \in 1..Len(records) :
               /\ records[k].id = r.id
               /\ records[k].source = r.source.id
               /\ records[k].target = r.target.id

\* C17, step: a query leaves both registries as they were, and the same query
\* with the same arguments again gives the same results
C17_Step ==
    (pc = "built" /\ op' # "from_relation_data") =>
        /\ nodes' = nodes /\ relations' = relations
        /\ (op' = op /\ arg1' = arg1 /\ arg2' = arg2) =>
               UNCHANGED <<err, retPath, retRels, retNodes, retNode, retShare>>

\* C17: queries have no effect on the registries: after any sequence of them
\* nodes and relations are as constructed, after the reverse branch of
\* get_ownership_path every registry relation keeps its source and target, and
\* a repeated query returns the same result
C17_QueriesArePure == [](C17_Registries) /\ [][C17_Step]_vars

\* C17 witness: a reversed two-hop path was returned, its relations are
\* flipped copies and the registry relations are as constructed
C17_Witness ==
    /\ op = "get_ownership_path" /\ ~err /\ Len(retPath) = 2
    /\ ~Owns(arg1.id, arg2.id) /\ Owns(arg2.id, arg1.id)
    /\ \A i \in 1..2 : retPath[i] # Original(retPath[i])
                       /\ retPath[i].source = Original(retPath[i]).target
    /\ relations = from_relation_data(records).relations

\* a ShareRange within 0 <= lower <= average <= upper <= 100
InRange(sh) == RLe(RInt(0), sh.lower) /\ Ordered(sh) /\ RLe(sh.upper, RInt(100))

\* C18: when every relation on the path has 0 <= lower <= average <= upper
\* <= 100, so has the result of get_real_ownership, in either direction
C18_RangePreserved ==
    (/\ op = "get_real_ownership" /\ ~err
     /\ LET p == get_ownership_path(relations, graph, arg1, arg2).val
        IN  \A i \in 1..Len(p) : InRange(p[i].share)) =>
        InRange(retShare)

\* C18 witness: a reversed two-hop path compounds to three different bounds
C18_Witness ==
    /\ op = "get_real_ownership" /\ ~err
    /\ ~Owns(arg1.id, arg2.id) /\ Owns(arg2.id, arg1.id)
    /\ Len(get_ownership_path(relations, graph, arg1, arg2).val) = 2
    /\ retShare.lower # retShare.average /\ retShare.average # retShare.upper
    /\ InRange(retShare)

\* C14: assigning a new value to the nodes field of an OwnershipGraph is
\* rejected with an error and the node registry keeps its contents
C14_Original ==
    op = "setattr_nodes" =>
        err /\ nodes = from_relation_data(records).nodes

\* C16: every relation of the registry has its source and its target in the
\* node registry: the entry under the id of the endpoint is that same entity
C16_Original ==
    pc = "built" =>
        \A r \in Values(relations) :
            /\ HasKey(nodes, r.source.id) /\ DictGet(nodes, r.source.id) = r.source
            /\ HasKey(nodes, r.target.id) /\ DictGet(nodes, r.target.id) = r.target

\* C13: when calculate obtains an ownership path, get_real_ownership is called
\* and a total is written exactly when no relation of the path is inactive;
\* otherwise get_real_ownership is not called and the "unable to calculate"
\* line is written; every inactive relation has a warning line before its own
C13_RealOwnershipIffAllActive ==
    (op = "calculate" /\ ~err
     /\ \E k \in 1..Len(calls) : calls[k] = "get_ownership_path") =>
        LET inactive == {i \in 1..Len(retPath) : ~retPath[i].active}
            invoked  == \E k \in 1..Len(calls) : calls[k] = "get_real_ownership"
            total    == \E k \in 1..Len(out) : out[k].kind = "total"
            unable   == \E k \in 1..Len(out) : out[k].kind = "unable"
            warnings == {k \in 1..Len(out) : out[k].kind = "warning"}
        IN  /\ invoked <=> inactive = {}
            /\ total <=> inactive = {}
            /\ unable <=> inactive # {}
            /\ total => /\ out[Len(out)] = TotalLine(retShare)
                        /\ retShare = get_real_ownership(relations, graph, arg1, arg2).val
            /\ unable => out[Len(out)] = UnableLine
            /\ Cardinality(warnings) = Cardinality(inactive)
            /\ \A k \in warnings : k < Len(out) /\ out[k + 1].kind = "relation"
            /\ \A i \in inactive : \E k \in warnings : out[k + 1] = RelationLine(retPath[i])

\* C13 witness: a two-hop path whose first relation is inactive and whose
\* second is active: a warning, no call of get_real_ownership, the unable line
C13_Witness ==
    /\ op = "calculate" /\ ~err /\ Len(retPath) = 2
    /\ ~retPath[1].active /\ retPath[2].active
    /\ \A k \in 1..Len(calls) : calls[k] # "get_real_ownership"
    /\ Len(out) = 5 /\ out[2] = WarningLine /\ out[5] = UnableLine

\* C13 witness: a two-hop path of active relations and its total
C13_WitnessTotal ==
    /\ op = "calculate" /\ ~err /\ Len(retPath) = 2
    /\ calls[Len(calls)] = "get_real_ownership"
    /\ out[Len(out)].kind = "total" /\ retShare # NoShare

====
